---------------------------- MODULE Spec2Model ----------------------------
(***************************************************************************)
(* A model of the jet2 price-tracker dashboard (src/unnamed/part_000):     *)
(* the synthetic price generator generateDemoData, the live-data           *)
(* normalizer buildLiveMonths, and the Dashboard component's state         *)
(* machine (startup fetch, hotel pick, query edit, 100 ms load timers).    *)
(*                                                                         *)
(* Conventions.                                                            *)
(*  - A JavaScript value that may be null/undefined is a sequence of       *)
(*    length <= 1: <<>> is null, <<v>> is the value v.                     *)
(*  - A JavaScript string is a TLA+ string; Chars gives its UTF-16 code    *)
(*    units, so charCodeAt, toLowerCase and includes are computed.         *)
(*  - Floating point: Math.sin cannot be evaluated here.  SinTable holds   *)
(*    the values frac(sin(k)*10000) of the code's hash at the integers k   *)
(*    the model uses, floored to twentieths.  All other arithmetic is      *)
(*    exact rational arithmetic on those values.                           *)
(*  - A raw scraped price (price_pp) is a number of quarter pounds, so     *)
(*    that non-integer raw prices occur.                                   *)
(***************************************************************************)
EXTENDS Integers, Sequences, FiniteSets, TLC

VARIABLES
    \* ---- Dashboard component state (useState hooks, lines 104-117)
    mode,        \* "demo" | "live"
    liveData,    \* null, or the parsed pricing_data.json
    liveStatus,  \* "loading" | "ok" | "none"
    query,       \* text of the hotel input
    sugg,        \* the suggestions shown under the input
    hotel,       \* null, or the selected hotel record
    apt, dur, board,
    selRoom,
    data,        \* null, or the displayed grid (a sequence of months)
    rTypes,      \* the active room-type list
    anim,
    \* ---- environment of the component
    fetchSt,     \* the startup fetch: "pending", or how it was settled
    timers,      \* pending setTimeout callbacks of load, in firing order
    uncaught,    \* whether a load callback ended in an uncaught error
    events,      \* user events so far
    now,         \* the clock read by new Date(): [month |-> 0..11, year |-> y]
    ticks,       \* month changes of the clock so far
    \* ---- harness of the pure functions
    genArgs,     \* arguments of generateDemoData
    genCalls,    \* results of the calls made so far, latest last
    liveArgs,    \* arguments of buildLiveMonths
    liveOut      \* null, or the outcome of the call of buildLiveMonths

vars == << mode, liveData, liveStatus, query, sugg, hotel, apt, dur, board, selRoom,
           data, rTypes, anim, fetchSt, timers, uncaught, events, now, ticks,
           genArgs, genCalls, liveArgs, liveOut >>

dashVars == << mode, liveData, liveStatus, query, sugg, hotel, apt, dur, board,
               selRoom, data, rTypes, anim, fetchSt, timers, uncaught,
               events >>

-----------------------------------------------------------------------------
(* Bounds of the model *)

\* month changes of the clock in one behaviour
MaxTicks == 2
\* calls of generateDemoData recorded in one behaviour
MaxCalls == 2
\* scraped months of the longest hotel record drawn
MaxScraped == 13
\* user events (clicks, edits, selections) in one behaviour
MaxEvents == 4

-----------------------------------------------------------------------------
(* Constants of the program *)

MONTHS == << "Jan", "Feb", "Mar", "Apr", "May", "Jun",
             "Jul", "Aug", "Sep", "Oct", "Nov", "Dec" >>

ROOM_TYPES == << "Standard Double", "Superior Double", "Family Room",
                 "Suite", "Sea View Double" >>

BOARD_TYPES == << "Self Catering", "Bed & Breakfast", "Half Board",
                  "Full Board", "All Inclusive" >>

AIRPORTS == << "LBA", "MAN", "EMA", "BHX", "EDI", "GLA", "NCL",
               "STN", "BFS", "BRS", "LGW", "LTN", "LPL", "BOH" >>

DURATIONS == << 3, 5, 7, 10, 14 >>

NULL == << >>
Some(v) == << v >>

\* A hotel object: name, _months, _roomTypes (lines 131-134; destination,
\* stars and rating are only displayed).  obj tells the objects of the two
\* arrays apart: those of SAMPLE_HOTELS are the same objects throughout,
\* those of liveHotels are created anew by every render.
\* A sample hotel carries no _months and no _roomTypes (both undefined).
SampleHotel(n) ==
    [ name |-> n, _months |-> NULL, _roomTypes |-> NULL, obj |-> "sample" ]

SAMPLE_HOTELS ==
    << SampleHotel("Sunwing Alcudia Beach"), SampleHotel("Hotel Flamingo Oasis"),
       SampleHotel("Zafiro Palace Alcudia"), SampleHotel("Olympic Lagoon Resort"),
       SampleHotel("Hotel Riu Palace Jandia"), SampleHotel("Aqua Fantasy Aquapark"),
       SampleHotel("Mitsis Rinela Beach Resort"), SampleHotel("Rixos Premium Bodrum") >>

\* the sentinel of the running minimum (let ch=Infinity)
Infinity == 999999999

\* the year used when a month label carries no parsable year
FallbackYear == 2026

-----------------------------------------------------------------------------
(* Strings and numbers *)

Range(s) == { s[i] : i \in DOMAIN s }

\* the UTF-16 code units of the strings the model uses
Chars(s) ==
    CASE s = "Sunwing Alcudia Beach" -> <<83, 117, 110, 119, 105, 110, 103, 32, 65, 108, 99, 117, 100, 105, 97, 32, 66, 101, 97, 99, 104>>
      [] s = "Hotel Flamingo Oasis" -> <<72, 111, 116, 101, 108, 32, 70, 108, 97, 109, 105, 110, 103, 111, 32, 79, 97, 115, 105, 115>>
      [] s = "Zafiro Palace Alcudia" -> <<90, 97, 102, 105, 114, 111, 32, 80, 97, 108, 97, 99, 101, 32, 65, 108, 99, 117, 100, 105, 97>>
      [] s = "Olympic Lagoon Resort" -> <<79, 108, 121, 109, 112, 105, 99, 32, 76, 97, 103, 111, 111, 110, 32, 82, 101, 115, 111, 114, 116>>
      [] s = "Hotel Riu Palace Jandia" -> <<72, 111, 116, 101, 108, 32, 82, 105, 117, 32, 80, 97, 108, 97, 99, 101, 32, 74, 97, 110, 100, 105, 97>>
      [] s = "Aqua Fantasy Aquapark" -> <<65, 113, 117, 97, 32, 70, 97, 110, 116, 97, 115, 121, 32, 65, 113, 117, 97, 112, 97, 114, 107>>
      [] s = "Mitsis Rinela Beach Resort" -> <<77, 105, 116, 115, 105, 115, 32, 82, 105, 110, 101, 108, 97, 32, 66, 101, 97, 99, 104, 32, 82, 101, 115, 111, 114, 116>>
      [] s = "Rixos Premium Bodrum" -> <<82, 105, 120, 111, 115, 32, 80, 114, 101, 109, 105, 117, 109, 32, 66, 111, 100, 114, 117, 109>>
      [] s = "LBA" -> <<76, 66, 65>>
      [] s = "MAN" -> <<77, 65, 78>>
      [] s = "EMA" -> <<69, 77, 65>>
      [] s = "BHX" -> <<66, 72, 88>>
      [] s = "EDI" -> <<69, 68, 73>>
      [] s = "GLA" -> <<71, 76, 65>>
      [] s = "NCL" -> <<78, 67, 76>>
      [] s = "STN" -> <<83, 84, 78>>
      [] s = "BFS" -> <<66, 70, 83>>
      [] s = "BRS" -> <<66, 82, 83>>
      [] s = "LGW" -> <<76, 71, 87>>
      [] s = "LTN" -> <<76, 84, 78>>
      [] s = "LPL" -> <<76, 80, 76>>
      [] s = "BOH" -> <<66, 79, 72>>
      [] s = "3" -> <<51>>
      [] s = "5" -> <<53>>
      [] s = "7" -> <<55>>
      [] s = "10" -> <<49, 48>>
      [] s = "14" -> <<49, 52>>
      [] s = "Self Catering" -> <<83, 101, 108, 102, 32, 67, 97, 116, 101, 114, 105, 110, 103>>
      [] s = "Bed & Breakfast" -> <<66, 101, 100, 32, 38, 32, 66, 114, 101, 97, 107, 102, 97, 115, 116>>
      [] s = "Half Board" -> <<72, 97, 108, 102, 32, 66, 111, 97, 114, 100>>
      [] s = "Full Board" -> <<70, 117, 108, 108, 32, 66, 111, 97, 114, 100>>
      [] s = "All Inclusive" -> <<65, 108, 108, 32, 73, 110, 99, 108, 117, 115, 105, 118, 101>>
      [] s = "Oasis Beach House" -> <<79, 97, 115, 105, 115, 32, 66, 101, 97, 99, 104, 32, 72, 111, 117, 115, 101>>
      [] s = "Oasis Palmanova Mallorca" -> <<79, 97, 115, 105, 115, 32, 80, 97, 108, 109, 97, 110, 111, 118, 97, 32, 77, 97, 108, 108, 111, 114, 99, 97>>
      [] s = "Oasis Katmandu Park" -> <<79, 97, 115, 105, 115, 32, 75, 97, 116, 109, 97, 110, 100, 117, 32, 80, 97, 114, 107>>
      [] s = "oas" -> <<111, 97, 115>>
      [] s = "" -> <<>>
\* Number -> String, as string concatenation converts a duration
NumStr(n) ==
    CASE n = 3 -> "3" [] n = 5 -> "5" [] n = 7 -> "7"
      [] n = 10 -> "10" [] n = 14 -> "14"

RECURSIVE SumSeq(_)
SumSeq(s) == IF s = << >> THEN 0 ELSE Head(s) + SumSeq(Tail(s))

\* String.prototype.toLowerCase on code units (ASCII letters)
LowerCode(c) == IF c >= 65 /\ c <= 90 THEN c + 32 ELSE c
ToLower(cs) == [ i \in DOMAIN cs |-> LowerCode(cs[i]) ]

\* String.prototype.includes on code units
Includes(cs, qs) ==
    \E off \in 0 .. (Len(cs) - Len(qs)) :
        \A j \in 1 .. Len(qs) : cs[off + j] = qs[j]

\* Array.prototype.indexOf, 0-based, -1 when absent
IndexOf(seq, v) ==
    IF \E i \in DOMAIN seq : seq[i] = v
      THEN (CHOOSE i \in DOMAIN seq : seq[i] = v /\ \A j \in 1 .. (i - 1) : seq[j] # v) - 1
      ELSE -1

\* Math.round of the rational n/d (d > 0): floor(n/d + 1/2)
RoundDiv(n, d) == (2 * n + d) \div (2 * d)

\* first index of the table of the hash
SinBase == 2400

\* floor(20 * frac(sin(k)*10000)) for k = SinBase, SinBase+1, ...
SinTable ==
    <<
        6,  6,  2,  5,  9,  6, 15, 11,  5,  6,  4,  3, 16,  5,  3, 11,  1, 15, 17, 11,  9,  8,  9, 15,  7,
       18,  0,  9, 14, 13,  8, 17,  3, 12, 14,  4, 16, 16, 16, 15, 18, 18,  1, 12, 17, 10,  7, 13,  0,  9,
        1, 12,  2, 10, 13,  7,  4,  1,  7,  4,  7,  6, 18, 11, 14, 11, 13, 14, 12, 19,  9, 15, 15,  9,  1,
       11,  2, 17,  5, 16,  3,  7,  5, 17, 11, 17,  3, 18, 17,  8, 12,  2, 10, 14, 14, 19, 17, 18,  8, 12,
       14,  1, 11,  9,  2, 13, 11, 12,  6, 17,  8,  1, 17, 19, 18, 19,  8, 19, 18, 19, 14,  1, 15,  5,  9,
        5,  6,  1, 11, 17, 17,  0,  7, 17, 17, 14,  2,  1, 13, 12, 10, 14,  9,  0,  4,  2, 14,  7,  7, 18,
       18, 12,  5,  6, 15, 15,  2, 16,  5,  2, 17,  3, 17,  0,  0,  2,  4, 14, 16, 10, 16,  7, 19, 18,  4,
       19,  4, 19,  3,  9, 16, 10, 17, 10, 19, 16, 17, 10, 15,  4, 17, 19,  2,  0, 15, 10, 11, 19, 14, 17,
        6,  8, 10,  2,  1,  3, 19, 13, 18,  1, 14,  1,  4,  1, 16, 16, 16,  1,  5, 14,  8, 12,  8,  9, 13,
        0,  5, 13,  6,  7, 13,  2,  4,  6, 19,  5,  8,  0,  4,  6,  2, 17,  7,  9, 10, 16, 11,  1,  2, 19,
        3, 18,  7, 17,  6, 10, 12, 17,  3,  7,  1,  7,  1,  5, 17, 15, 15, 14, 14, 12, 15, 18, 11,  7, 19,
       17, 12,  7,  0,  7,  7, 19,  4, 17, 19, 18, 15, 11, 13, 17,  9, 18,  1, 12, 10, 13,  6, 11, 19,  0,
        2, 18, 17, 19, 17, 18, 12, 10, 11,  8,  3,  7, 19,  5,  7,  6, 12, 17, 15, 14, 17,  5, 19,  4,  0,
       17, 13,  4,  1,  6,  0,  3, 14, 11,  1, 15, 18,  4, 19, 17, 14,  3, 16, 13, 13,  2, 17, 11,  2, 14,
       19, 10,  8, 11, 13,  7,  9, 19,  0, 15, 12, 19,  2, 14, 18,  0, 17, 18,  8, 14, 12,  4,  6, 19,  2,
        7, 13, 16,  8, 11, 16, 15, 11, 10, 11, 12, 17, 10,  6,  9,  1,  5,  0, 17,  1,  4,  7,  1,  5, 16,
        5, 13, 12,  4,  9, 12,  2, 16, 14, 11, 13, 10, 12, 10, 19, 18, 16, 18,  2,  2, 10, 12,  9,  6, 14,
        5,  5, 10, 15, 18,  3, 12,  1, 19,  9, 18,  8,  8,  0, 11,  8,  0, 19, 16,  7,  8,  3, 13,  4, 19,
       15,  2,  6, 17,  8,  0, 13,  7, 14,  3,  8,  4,  1, 10,  4, 17,  2,  1, 14, 17,  1, 16,  5,  1, 15,
       19, 18,  9, 19, 11, 10,  7, 16, 11,  8,  6, 16,  6, 18,  3, 11,  1, 17,  0,  2, 10, 10, 16,  0, 10,
       11,  4, 16, 18,  4, 18,  1, 11, 15, 10,  8, 16, 18, 10, 19,  8,  1,  2, 14, 14, 16, 19, 11,  4,  5,
       17,  9,  3,  7, 18, 17,  9, 16, 18, 16,  7,  8, 16,  4,  0,  8,  8, 10, 19,  9,  1,  4,  3,  1,  0,
        3,  5,  2, 11,  5, 11,  5,  5, 18,  3,  1,  0,  0, 16, 18,  9,  3, 17, 14, 18,  1,  7,  4, 17,  2,
        5,  3, 13, 16, 10, 18,  9,  1, 13, 17, 11, 17, 10,  7, 19, 18, 17,  1, 11,  7, 14,  5, 18, 14,  7,
       17,  4, 19,  3,  5, 16, 16,  7,  1, 18, 15,  8, 17, 10, 10,  1, 18,  1, 11, 16,  0,  6, 10, 10,  6,
       18, 16,  9, 17,  5,  3,  2,  7, 18, 17, 17,  2, 11, 16, 17,  4, 10, 12,  4, 16,  6,  2,  4, 11,  9,
        1,  8,  7,  4,  4, 18, 17, 16, 18,  6,  7, 10,  6,  2,  7, 18, 18,  5, 13,  6,  9,  7,  7,  9,  5,
       18,  8, 19, 19,  4,  4,  2,  9, 16, 16,  5, 19,  3,  3, 14,  6,  6,  0, 19, 16,  0, 16,  8, 11,  7,
       12, 17,  6,  0, 11,  3,  6,  5,  5,  9, 18, 14, 19, 14,  0,  8,  6,  2,  5, 16, 13,  1,  5, 17,  7,
        3,  9, 10,  4,  4, 16,  3, 17,  7, 10,  9,  9,  8,  4,  3,  7,  7, 14, 14,  5, 12, 13,  3,  8,  1,
       12,  6, 14, 17,  9, 18,  4,  1, 10, 11, 12,  2,  3,  0,  2,  5, 13, 13, 11, 16, 15,  1,  4,  3,  0,
        6,  1,  6, 15, 11, 18, 14,  4, 19,  1,  1, 13, 19, 16,  4, 19, 14, 17,  2,  4,  5, 16,  3,  9, 15,
        9, 10,  1, 16,  5,  9, 17,  8, 17, 11,  3, 12, 14,  1, 10,  8, 18,  4, 12, 12, 16, 13,  0, 11,  7,
       17, 17,  9, 18,  9,  5,  2,  6, 14,  6, 13, 18,  6,  4,  5, 10,  5, 19,  5, 14,  2, 13,  3,  4,  2,
        9,  3, 18, 19, 14, 13, 17, 19, 15, 13,  4,  4, 12,  1,  3,  7,  5,  7, 14, 19,  6, 13, 17, 10, 11,
        3, 15,  2, 13, 18,  8, 12, 12,  6, 18,  4, 16,  7, 19, 17,  8, 12,  8,  0, 19,  6,  6,  9,  4, 15,
        0, 11, 10, 15,  2,  2, 17, 14,  2, 10, 10,  0, 18,  0, 10, 13, 19,  4,  8,  2,  5, 10,  1, 10,  7,
        1,  8,  9,  0,  0,  0, 19,  4, 17,  5,  2, 16,  2,  5, 17,  3,  1, 14, 17,  1, 17, 16, 16, 11, 18,
        8, 11, 15,  2, 14,  7,  0, 18, 11,  9,  4,  9, 17, 18, 16, 19, 10,  6, 15, 11, 14, 15, 16, 10,  9,
        2, 11,  3,  5, 14,  6,  8, 10, 16,  8, 16,  1, 18,  2, 18, 16, 15, 11,  9,  5, 13,  3,  4, 17,  9,
       17, 16,  9,  3, 11,  4, 16, 12, 10,  9,  0,  7,  9,  3,  9,  6,  7, 16,  3, 15, 19, 15, 10,  8, 18,
       15, 11,  7,  5, 14,  6, 16,  1, 15,  9, 13,  1, 16,  6, 19,  8, 16, 18,  2,  9, 12,  7, 15,  0,  8,
        5,  3,  6,  2, 11, 11,  8, 15, 15,  2, 13, 16,  0, 17,  8, 15,  0,  2, 11,  4, 11,  8, 12, 14,  8,
       11, 19, 10, 17, 10,  0, 16, 12, 12,  9,  0, 18,  8, 16,  7,  4,  5, 12,  1,  1, 12,  7, 19,  4, 18,
       13,  8, 12,  5, 16, 10, 19,  8,  0,  5, 17, 17,  3, 13,  8,  2, 12, 16,  4,  2, 15,  1,  0,  7,  7,
       10,  1, 11,  9, 15, 15,  4, 17,  2,  2, 16,  6,  1,  5, 18, 13,  1, 19,  8,  0,  1,  1, 16, 15, 18,
        0,  6, 14,  4,  0, 12, 14,  2,  2,  8,  5,  2, 16,  8,  9, 11,  1,  3,  2, 15, 13, 18,  9,  3,  9,
        9, 10, 17,  3,  8,  2,  7, 15,  1,  5,  8, 16, 18, 11, 15,  2, 15, 11, 18,  0, 12, 11, 14, 10,  7,
        3, 10, 15,  9, 12, 10,  1,  7,  1,  1,  0,  0,  4, 10,  8, 11,  9,  4,  1,  2, 16, 12,  6,  1,  1,
       19, 11,  2,  3,  3, 15,  9,  3,  7, 17,  5,  5, 10, 19,  4, 12, 17,  9,  2,  8, 16,  6,  5, 14,  1,
       18, 18, 11, 10, 18, 18, 12, 15,  6, 13, 11, 19,  8,  3, 13,  7, 13, 16,  0, 15, 11,  0, 10,  5, 17,
       19, 15,  0,  5,  6, 16, 14, 16,  2, 16, 13, 16, 17,  8, 19, 15, 18, 12, 14,  8,  2, 18,  0, 16, 16,
        6,  9,  5,  4, 15,  8, 11, 10,  1,  3,  6, 15,  2, 14, 15, 15,  5, 16,  0,  8,  6, 11,  9, 18,  6,
        9, 10,  6,  6,  4, 13, 10,  2, 18,  3,  7,  7, 10,  8, 16,  3, 13, 15, 16,  5,  9,  6,  4,  4, 11,
        9,  2, 19,  0,  5, 18,  5, 15,  1,  8, 10, 17,  7, 14, 16,  1,  8,  4, 14, 13, 19, 15,  0, 10,  0,
        3, 10, 13, 10, 15, 19,  8, 18,  0,  6,  8, 17, 17,  8, 16,  8, 14, 17, 10,  3, 17,  6, 18, 11,  5,
        8, 18,  9, 18,  5,  9, 16, 17,  2,  9,  3,  5,  2,  8,  3,  9,  0, 13, 18, 13, 10,  3, 16,  2, 10,
        9, 16, 12,  6,  6,  2, 19, 14,  8, 11, 16, 17,  5, 10, 16,  3, 19,  5, 19, 13,  1, 18,  6, 13, 13,
        7, 17,  5, 16, 16,  1,  9, 11,  0,  6,  5, 14,  8,  2,  0,  6,  1, 10,  1, 12,  3, 12,  3, 10, 11,
        3,  2,  4, 14,  8,  3, 16, 11, 16,  7,  1,  9, 18, 18,  2,  7, 12, 13,  9,  1, 11,  4,  1,  7, 13,
       16,  2,  9,  7, 18, 13,  9,  8,  1,  3,  6, 19, 12, 18, 16, 19, 17, 18,  6,  9, 12,  4, 17, 13, 18,
        3,  5, 16, 19,  7,  4,  5,  4,  2, 16, 16,  6, 19, 18, 19, 16,  4, 16,  2,  3,  1, 10, 10, 18, 13,
        4, 11, 11, 13, 10, 10,  4,  5, 15, 12,  9, 13,  7, 17,  3,  5,  0, 11,  3,  8, 11, 16, 18, 16, 11,
       19,  9, 19,  3, 17, 15,  3, 18,  1,  1,  5,  6, 11, 10,  7,  0, 17,  5, 14, 12, 10,  8, 14, 15,  6,
       19, 14, 19, 10, 18, 15, 15,  7, 14,  7,  3,  2, 18, 11,  9, 14,  3,  8, 10,  2, 14, 12,  7, 17, 19,
        3,  0, 14, 19,  3, 15, 19, 18, 18, 19,  5,  1, 17, 14,  5, 12,  7,  0,  5, 16,  5,  7, 12,  5,  6,
       12,  0,  3,  9,  4,  8,  5, 12, 19, 10, 14,  5,  3, 15, 18, 19,  8, 16,  0,  0,  4, 19,  8, 19,  7,
        7,  7, 14,  6, 15,  7,  3, 10, 16,  1, 10,  7, 11, 17, 17, 17, 17,  9,  6, 18, 15, 11,  9,  4, 10,
        4, 11, 18,  1, 11,  7, 11, 17,  1,  0,  5, 13, 18, 13, 12, 14,  7, 13,  0, 18, 17, 15,  0,  7,  2,
       14,  1,  2, 15,  2, 14,  3,  2, 10, 10,  5, 10, 16, 14, 13, 16,  7,  4,  7, 17,  9,  8,  8, 12, 13,
       16,  9,  3, 14, 18,  9, 15,  5,  2, 19, 15,  4, 17, 11,  9,  0,  0, 19,  7, 10,  8,  3, 12,  4,  3,
        3, 12,  5,  2, 13,  9, 17,  2, 13, 18,  3,  1,  1,  5,  6,  7,  8, 17,  6, 17, 13,  3,  0,  4,  4,
       13, 16, 14, 12, 11, 12, 17,  8,  2,  7,  4, 12,  4, 13, 11, 17, 11, 15, 15, 13,  9,  0, 15,  2,  6,
       11,  2, 16, 15, 13, 17, 12,  9,  3, 15,  2,  6,  5, 17,  9,  0, 16,  5, 19, 11,  7,  8, 12, 15, 18,
        3, 10, 17, 17, 12,  5, 13,  4, 10,  4, 12, 13,  9, 12, 12, 15,  6, 11,  1, 17, 15,  2,  6, 19, 11,
        2, 10,  0, 10,  6, 18, 11, 17, 17, 15,  1, 18, 14, 11, 19,  4, 18,  5,  1, 15, 18, 14,  7,  2, 18,
       14,  4,  6,  5, 12, 18,  6,  2,  2, 11, 14, 19, 13, 18,  2, 10, 11, 18,  3, 11,  8, 17, 12,  2, 13,
        5, 17, 18,  6, 14,  3,  8, 14, 12,  3, 10,  1,  1, 13, 12, 14, 18, 14, 10,  8, 13,  0, 17, 11, 10,
        6,  5,  1,  6, 19,  5,  4, 14,  4,  1,  9,  9, 12,  1,  7, 15,  1,  7, 10,  6, 19, 13, 13, 15,  0,
        3,  1,  8,  3,  6,  1, 19, 19, 15, 15,  8,  6,  2, 17, 14, 12,  1,  8,  8, 11,  1,  9,  1, 19,  7,
       13,  6,  2, 15, 18, 12, 19, 11,  5, 14, 15,  0, 10, 17,  3,  2, 17,  2,  8, 19, 14,  6,  4,  5,  4,
       14, 14,  6, 19, 17, 17, 13,  0,  7,  2, 16,  2, 12,  0, 12,  6, 15, 14,  7,  1, 16, 17, 11, 18,  6,
        4,  3,  4, 13, 14,  1, 10, 17, 12,  6, 15, 14,  6, 15, 13,  9,  7,  7, 10,  7, 19,  7,  6,  4,  7,
        3, 19, 13, 10,  1, 11,  1, 14, 18, 13,  7,  2,  1,  7,  4, 10,  9,  8, 10,  6, 18,  6, 14, 17,  8,
       12,  7,  5,  5,  9,  9, 13, 14, 19, 17, 11,  9, 19, 17, 15, 19, 15,  7, 14, 11, 15, 13, 18, 15, 15,
       14, 13,  1, 11, 18,  2, 11, 13, 11,  1, 10,  7,  2,  6, 16, 11, 17,  3,  0, 15,  8,  5, 19, 16,  8,
        9, 14, 13, 11, 16, 12,  8,  5,  2,  2,  7,  7, 16, 18,  7,  9,  5, 19, 12, 11, 19,  2,  1,  7, 12,
       14, 18, 18, 12, 14, 14,  3,  3, 19,  0,  1, 11, 16, 18,  0, 11, 11, 17,  8, 14, 17, 17, 10,  2, 14,
       17, 10,  2, 19,  1,  1, 15,  3, 18,  1, 12, 10,  1, 12, 11,  1,  3, 13, 13, 11,  2,  7,  3, 19,  7,
        9, 17,  8, 15,  7,  1, 15,  1,  5,  7, 18, 11,  8,  5,  2, 12, 17,  7, 14,  5, 14, 15,  9, 18,  9,
        7,  5,  7, 11,  0,  9,  1, 15, 11,  1, 18, 16,  3,  1,  6, 19, 16,  7,  6,  2,  9,  3, 16, 16, 12,
       16,  3,  3, 11,  4, 18,  8,  4, 11, 19, 12, 13, 11, 12, 15,  4, 13, 18, 11, 12,  6, 16, 19,  7, 15,
       12,  1, 18,  2,  6, 15,  0,  2, 11, 14, 10, 16, 10,  0, 18,  5,  4,  6,  3, 18,  5, 14,  6,  6, 16,
        6,  9,  3, 18, 15, 18,  3, 16, 15,  8, 13,  0,  5, 10,  4,  6,  7, 15,  6, 11,  9, 14,  5,  8, 11,
        4, 14, 16, 14,  7,  7, 18,  2,  4, 16,  1, 19, 13,  0,  7,  0, 13,  7,  6,  2,  0, 19, 11,  7,  2,
       11, 17, 13,  8, 10,  5, 10, 18,  0, 17, 16,  4,  3, 18, 19,  0, 11,  4,  2, 13, 17,  2, 19,  8, 19,
        9,  7,  8, 15,  7, 14,  1,  0,  7,  1, 12,  7,  6, 13, 16,  1, 19,  9,  6, 12, 14, 10,  7,  4, 13,
        5, 17, 13, 10,  7, 15,  4, 12, 11, 14,  2, 15,  8,  7,  9, 10, 11, 13, 13,  1, 14,  9,  5,  4, 12,
        6, 19,  6, 18,  5,  5, 16,  0, 17,  7,  4,  2,  8,  6,  6,  6,  4, 16,  3, 10,  5,  4,  7,  0,  7,
        9, 12,  3,  0, 18,  2,  9,  4, 11, 19, 12,  4,  8, 14,  3,  8,  6, 11, 13,  8, 14,  3, 12, 13,  3,
       15,  0,  2,  0,  5,  6,  7, 12, 12,  1,  1,  7, 15,  3,  2, 12,  7, 17,  0, 16, 16, 15, 16,  1,  5,
        3,  4,  1, 10,  1,  1,  3,  6, 12,  4,  0, 11, 16,  5,  4, 19,  3, 17,  0,  2, 14, 11, 19,  5,  2,
        5,  8, 13, 16, 19, 18, 10,  3,  5, 18, 13, 19, 16,  6,  4,  8,  5, 12,  5, 11,  4, 19,  4,  0,  4,
       19, 17,  0, 19,  6,  4,  2, 16,  9, 12, 13, 18, 17, 18, 18,  3,  4,  5, 10,  0, 13,  6, 10, 19, 10,
        6,  9, 15,  1,  4,  7, 13, 16, 14,  1,  6, 12,  1, 11,  4,  5,  1, 10, 15, 14,  6,  8, 11,  7, 12,
       10,  1,  8,  4,  2, 17, 14,  0, 14, 18, 18,  5, 12, 11,  6, 11,  4,  3,  3,  5,  1, 11,  1,  3,  1,
       12,  7,  5, 13,  0,  1, 15,  4,  4, 16,  1, 13, 13, 10, 11, 13,  2,  3, 14,  2, 19,  0, 13, 11, 15,
       12,  9, 19, 15, 19,  7,  7, 19,  7,  8, 19, 10, 19,  5, 17, 10, 18,  9,  4, 14, 18, 17,  5,  9,  2,
        7,  8,  1, 14,  5,  9,  1,  5, 11, 16, 11, 15, 12, 15,  9,  3,  0,  1, 13, 11,  3, 12, 14, 10, 11,
       16,  2, 14, 15, 15,  2, 18,  7, 16, 14, 13,  4, 15, 19,  7,  9, 16, 12, 15, 18,  3, 14, 18, 14,  0,
       18, 19,  6, 15, 18,  5,  7, 12,  9, 17,  5, 13, 13, 11,  2, 13, 14, 10,  0,  0,  1,  6, 13, 11,  1,
        1, 10, 18,  0,  6,  9, 16,  5, 14, 18,  5, 11,  1,  6,  8,  3,  6,  8,  6,  6, 12, 14, 10,  4, 12,
        0, 11, 19,  1,  7,  8, 15, 12,  5,  0, 16,  0, 13, 19, 15,  1,  0,  9,  7,  9, 14,  1,  8, 16,  4,
        8, 15, 17,  5, 13,  6,  1, 14,  3,  7, 19,  7,  9,  4,  3, 13, 19, 10, 19, 12, 12, 18, 13,  6,  6
    >>

-----------------------------------------------------------------------------
(* generateDemoData (lines 25-41) *)

\* seed: the sum of the char codes of hotel+airport+duration+board (line 26)
Seed(h, airport, duration, b) ==
    SumSeq(Chars(h) \o Chars(airport) \o Chars(NumStr(duration)) \o Chars(b))

\* a generator with hidden state: the hash index moves with every call made
rngHidden(seed, i) == SinTable[seed + i + Len(genCalls) - SinBase + 1]

\* rng(i), in twentieths (line 27)
rng(seed, i) == SinTable[seed + i - SinBase + 1]

\* sm, the seasonal multipliers, in twentieths (line 28)
sm == << 14, 13, 15, 17, 20, 25, 30, 31, 24, 18, 14, 13 >>

\* dm, the duration multiplier, in twentieths (line 29)
dm(duration) ==
    IF duration <= 3 THEN 10
    ELSE IF duration <= 5 THEN 14
    ELSE IF duration <= 7 THEN 20
    ELSE IF duration <= 10 THEN 27
    ELSE 34

\* bm, the board multiplier, in hundredths (line 30)
bm(b) == IndexOf(BOARD_TYPES, b) * 12 + 85

\* rm, the room-type multipliers, in twentieths (line 31)
rm(rt) ==
    CASE rt = "Standard Double" -> 20
      [] rt = "Superior Double" -> 24
      [] rt = "Sea View Double" -> 27
      [] rt = "Family Room" -> 29
      [] rt = "Suite" -> 38

\* p of room ri in month offset i (line 35):
\* round(bp*sm[mi]*dm*bm*rm[rt]*(.95+rng(i*10+ri)*.1)), with bp=400+rng(1)*600.
\* The product is x3*rj/160000000; it is rounded exactly, in pieces that stay
\* within 32 bits.
DemoPrice(seed, mi, duration, b, rt, i, ri) ==
    LET bp == 400 + 30 * rng(seed, 1)
        x3 == bp * sm[mi + 1] * dm(duration) * bm(b)
        rj == rm(rt) * (190 + rng(seed, i * 10 + ri))
        A  == (x3 \div 40000) * rj
        B  == (x3 % 40000) * rj
    IN  (A \div 4000) + (((A % 4000) * 40000 + B + 80000000) \div 160000000)

\* av of room ri in month offset i (line 36): rng(i*100+ri) > .15.
\* On a value floored to twentieths, r > 3/20 is floor(20r) >= 3 (no table
\* entry lies on the boundary).
DemoAvailable(seed, i, ri) == rng(seed, i * 100 + ri) >= 3

\* one entry of rooms (line 36)
DemoRoom(seed, mi, duration, b, i, ri) ==
    LET p == DemoPrice(seed, mi, duration, b, ROOM_TYPES[ri + 1], i, ri)
    IN  [ price |-> p, available |-> DemoAvailable(seed, i, ri),
          perNight |-> RoundDiv(p, duration) ]

\* the running minimum and maximum of line 37: if(p<ch)ch=p; if(p>mx)mx=p,
\* over the entries in the order of ROOM_TYPES
RECURSIVE DemoMin(_, _)
DemoMin(entries, ch) ==
    IF entries = << >> THEN ch
    ELSE DemoMin(Tail(entries),
                 IF Head(entries).price < ch THEN Head(entries).price ELSE ch)

RECURSIVE DemoMax(_, _)
DemoMax(entries, mx) ==
    IF entries = << >> THEN mx
    ELSE DemoMax(Tail(entries),
                 IF Head(entries).price > mx THEN Head(entries).price ELSE mx)

\* Object.values(rooms).reduce((a,r)=>a+r.price,0) (line 39)
RECURSIVE SumPrices(_)
SumPrices(entries) ==
    IF entries = << >> THEN 0
    ELSE Head(entries).price + SumPrices(Tail(entries))

\* mi and yr of month offset i (line 33)
DemoMonthIndex(i) == (now.month + i) % 12

\* the year changes one month late
DemoYearLate(i) == now.year + (IF now.month + i > 12 THEN 1 ELSE 0)

DemoYear(i) == now.year + (IF now.month + i >= 12 THEN 1 ELSE 0)

\* availability: the count of available rooms, "/", the number of rooms
\* (line 40), kept as the pair of numbers
DemoAvailability(entries) ==
    << Len(SelectSeq(entries, LAMBDA e : e.available)), Len(ROOM_TYPES) >>

\* the entry pushed for month offset i (lines 33-40); entries are the values
\* of rooms in the order ROOM_TYPES.forEach stores them
DemoMonth(seed, duration, b, i) ==
    LET mi == DemoMonthIndex(i)
        entries == << >> \o [ k \in 1 .. Len(ROOM_TYPES) |->
                               DemoRoom(seed, mi, duration, b, i, k - 1) ]
    IN  [ month |-> MONTHS[mi + 1], year |-> DemoYear(i),
          rooms |-> [ rt \in Range(ROOM_TYPES) |->
                        entries[IndexOf(ROOM_TYPES, rt) + 1] ],
          cheapest |-> DemoMin(entries, Infinity),
          mostExpensive |-> DemoMax(entries, 0),
          avgPrice |-> RoundDiv(SumPrices(entries), Len(ROOM_TYPES)),
          availability |-> DemoAvailability(entries) ]

\* generateDemoData(hotel,airport,duration,board): the clock is read by
\* new Date() (line 32), so the operator reads the variable now
generateDemoData(h, airport, duration, b) ==
    LET seed == Seed(h, airport, duration, b)
    IN  [ k \in 1 .. 12 |-> DemoMonth(seed, duration, b, k - 1) ]

-----------------------------------------------------------------------------
(* buildLiveMonths (lines 144-176) *)

\* a raw price of q quarter pounds: Math.round(rd.price_pp)
RoundRaw(q) == RoundDiv(q, 4)

\* Math.round(rd.price_pp/d) (line 156)
LivePerNight(q, d) == RoundDiv(q, 4 * d)

\* rd&&rd.price_pp>0 (lines 154-155): the room is in the month's mapping
\* and its raw price is positive
LiveHasPrice(m, r) == r \in DOMAIN m.rooms[1] /\ m.rooms[1][r].price_pp > 0

\* rooms[r] (lines 156, 160)
LiveRoom(m, r, d) ==
    IF LiveHasPrice(m, r)
      THEN [ price |-> RoundRaw(m.rooms[1][r].price_pp), available |-> TRUE,
             perNight |-> LivePerNight(m.rooms[1][r].price_pp, d) ]
      ELSE [ price |-> 0, available |-> FALSE, perNight |-> 0 ]

\* ch and mx after rt.forEach (lines 152-162), on the raw prices
RECURSIVE LiveMin(_, _, _)
LiveMin(m, rt, ch) ==
    IF rt = << >> THEN ch
    ELSE LiveMin(m, Tail(rt),
                 IF LiveHasPrice(m, Head(rt)) /\ m.rooms[1][Head(rt)].price_pp < ch
                   THEN m.rooms[1][Head(rt)].price_pp ELSE ch)

RECURSIVE LiveMax(_, _, _)
LiveMax(m, rt, mx) ==
    IF rt = << >> THEN mx
    ELSE LiveMax(m, Tail(rt),
                 IF LiveHasPrice(m, Head(rt)) /\ m.rooms[1][Head(rt)].price_pp > mx
                   THEN m.rooms[1][Head(rt)].price_pp ELSE mx)

\* the minimum rounded up instead of to the nearest pound
LiveCheapestCeil(m, rt) ==
    LET ch == LiveMin(m, rt, Infinity)
    IN  IF ch = Infinity THEN 0 ELSE (ch + 3) \div 4

\* cheapest: ch===Infinity?0:Math.round(ch) (line 166)
LiveCheapest(m, rt) ==
    LET ch == LiveMin(m, rt, Infinity)
    IN  IF ch = Infinity THEN 0 ELSE RoundRaw(ch)

\* label: m.month_label||m.month_key||"" split at " " (lines 163-164).
\* A label is kept as its words; the empty string splits into one empty word.
LiveParts(m) ==
    LET label == IF m.month_label # << >> THEN m.month_label ELSE m.month_key
    IN  IF label = << >> THEN << "" >> ELSE label

\* parseInt of a word: null stands for NaN
ParseInt(w) ==
    CASE w = "2026" -> Some(2026)
      [] w = "2027" -> Some(2027)
      [] w = "0" -> Some(0)
      [] OTHER -> NULL

\* parseInt(parts[1])||2026 (line 165)
LiveYear(parts) ==
    LET y == IF Len(parts) >= 2 THEN ParseInt(parts[2]) ELSE NULL
    IN  IF y = NULL \/ y = Some(0) THEN FallbackYear ELSE y[1]

\* Object.values(rooms).filter(r=>r.price>0).reduce((a,r)=>a+r.price,0)
\* (line 167): the sum of the prices of the rooms in S
RECURSIVE SumOver(_, _)
SumOver(rooms, S) ==
    IF S = { } THEN 0
    ELSE LET r == CHOOSE x \in S : TRUE
         IN  rooms[r].price + SumOver(rooms, S \ { r })

\* the entry returned by the map callback for month m (lines 151-169)
LiveMonth(m, rt, d) ==
    LET rooms == [ r \in Range(rt) |-> LiveRoom(m, r, d) ]
        priced == { r \in Range(rt) : rooms[r].price > 0 }
        parts == LiveParts(m)
    IN  [ month |-> parts[1], year |-> LiveYear(parts), rooms |-> rooms,
          cheapest |-> LiveCheapest(m, rt),
          mostExpensive |-> RoundRaw(LiveMax(m, rt, 0)),
          avgPrice |-> RoundDiv(SumOver(rooms, priced),
                               IF Cardinality(priced) > 1 THEN Cardinality(priced) ELSE 1),
          availability |->
              << Cardinality({ r \in Range(rt) : rooms[r].available }), Len(rt) >> ]
-----------------------------------------------------------------------------
\* the outcomes of a call of buildLiveMonths
LiveNull == [ kind |-> "null", months |-> << >>, roomTypes |-> << >> ]
LiveThrow == [ kind |-> "throw", months |-> << >>, roomTypes |-> << >> ]
LiveGrid(ms, rt) == [ kind |-> "grid", months |-> ms, roomTypes |-> rt ]

\* m.rooms[r] of a month entry without a rooms mapping is a TypeError
\* (line 154), raised by the first month that has none
LiveRaises(ms) == \E i \in DOMAIN ms : ms[i].rooms = NULL

\* months.filter(m=>m.cheapest>0) (line 172)
LiveValid(mo) == mo.cheapest > 0

\* buildLiveMonths(h,ap,d)
buildLiveMonths(h, ap, d) ==
    IF h._months = NULL \/ Len(h._months[1]) = 0 THEN LiveNull
    ELSE LET rt == IF h._roomTypes = NULL THEN ROOM_TYPES ELSE h._roomTypes[1]
         IN  IF Len(rt) = 0 THEN LiveNull
             ELSE IF LiveRaises(h._months[1]) THEN LiveThrow
             ELSE LET months == [ i \in DOMAIN h._months[1] |->
                                    LiveMonth(h._months[1][i], rt, d) ]
                      validMonths == SelectSeq(months, LiveValid)
                  IN  IF Len(validMonths) = 0 THEN LiveNull
                      ELSE LiveGrid(validMonths, rt)

-----------------------------------------------------------------------------
(* Initial state of the component (lines 104-117) and of the environment *)

InitDashboard ==
    /\ mode = "demo"
    /\ liveData = NULL
    /\ liveStatus = "loading"
    /\ query = ""
    /\ sugg = << >>
    /\ hotel = NULL
    /\ apt = "MAN"
    /\ dur = 7
    /\ board = "Half Board"
    /\ selRoom = "Standard Double"
    /\ data = NULL
    /\ rTypes = ROOM_TYPES
    /\ anim = FALSE
    /\ fetchSt = "pending"
    /\ timers = << >>
    /\ uncaught = FALSE
    /\ events = 0

\* the clock moves to the next month
ClockTick ==
    /\ ticks < MaxTicks
    /\ ticks' = ticks + 1
    /\ now' = IF now.month = 11
                THEN [ month |-> 0, year |-> now.year + 1 ]
                ELSE [ month |-> now.month + 1, year |-> now.year ]

-----------------------------------------------------------------------------
(* The two pure functions applied to drawn arguments *)

GenHotels == { "Sunwing Alcudia Beach", "Oasis Beach House" }
GenAirports == { "MAN", "LBA" }
GenInputs ==
    [ hotel : GenHotels, airport : GenAirports,
      duration : Range(DURATIONS), board : Range(BOARD_TYPES) ]

\* raw prices, in quarter pounds: 0, 0.25, 4.50, 450
RawPrices == { 0, 1, 18, 1800 }
LiveRooms == { "Suite", "Standard Double" }

\* the rooms mappings of a scraped month: none, or a price for some rooms
RoomMaps ==
    { NULL } \cup
    { Some([ r \in S |-> [ price_pp |-> f[r] ] ]) :
        S \in SUBSET LiveRooms, f \in [ LiveRooms -> RawPrices ] }

ScrapedMonth(label, key, rooms) ==
    [ month_label |-> label, month_key |-> key, rooms |-> rooms ]

Priced(label, r, q) ==
    ScrapedMonth(label, << >>, Some([ x \in { r } |-> [ price_pp |-> q ] ]))

\* scraped months: every rooms mapping under the label "Jun 2026", and
\* labels without a year, without a label, with a key only
MonthKinds ==
    { ScrapedMonth(<< "Jun", "2026" >>, << >>, rm0) : rm0 \in RoomMaps } \cup
    { Priced(<< "Jul" >>, "Suite", 1800),
      Priced(<< >>, "Suite", 1800),
      ScrapedMonth(<< >>, << "Aug", "2027" >>,
                   Some([ x \in { "Suite" } |-> [ price_pp |-> 1800 ] ])),
      Priced(<< "Sep", "0" >>, "Suite", 18) }

\* the scraped months that make the pairs
PairKinds ==
    { Priced(<< "Jun", "2026" >>, "Suite", 0),
      Priced(<< "Jun", "2026" >>, "Suite", 1),
      Priced(<< "Jul", "2026" >>, "Suite", 18),
      Priced(<< "Aug", "2026" >>, "Standard Double", 1800),
      ScrapedMonth(<< "Sep", "2026" >>, << >>, NULL) }

\* n scraped months, each with a priced Suite, labelled by the calendar
LongList(n) ==
    [ i \in 1 .. n |->
        Priced(<< MONTHS[((i - 1) % 12) + 1], "2026" >>, "Suite", 1800 + 4 * i) ]

MonthLists ==
    { NULL, Some(<< >>) } \cup
    { Some(<< k >>) : k \in MonthKinds } \cup
    { Some(<< k1, k2 >>) : k1 \in PairKinds, k2 \in PairKinds } \cup
    { Some(LongList(n)) : n \in 3 .. MaxScraped }

RoomTypeLists ==
    { NULL, Some(<< >>), Some(<< "Suite" >>),
      Some(<< "Suite", "Standard Double" >>) }

LiveInputs ==
    { [ h |-> [ name |-> "Oasis Beach House", _months |-> ms, _roomTypes |-> rts ],
        ap |-> "MAN", d |-> d ] :
        ms \in MonthLists, rts \in RoomTypeLists, d \in Range(DURATIONS) }

\* arguments under which one behaviour calls both functions: a record with
\* two priced rooms, and the generator on the same hotel, airport and nights
BothRecord ==
    [ name |-> "Oasis Beach House",
      _months |-> Some(<< ScrapedMonth(<< "Jun", "2026" >>, << >>,
                            Some([ r \in LiveRooms |->
                                     [ price_pp |-> IF r = "Suite" THEN 1800 ELSE 18 ] ])) >>),
      _roomTypes |-> Some(<< "Suite", "Standard Double" >>) ]

BothInputs ==
    { << [ hotel |-> BothRecord.name, airport |-> "MAN", duration |-> d,
           board |-> "Half Board" ],
         [ h |-> BothRecord, ap |-> "MAN", d |-> d ] >> : d \in Range(DURATIONS) }

InitFn ==
    /\ InitDashboard
    /\ now \in [ month : 0 .. 11, year : { FallbackYear } ]
    /\ ticks = 0
    /\ genCalls = << >>
    /\ liveOut = NULL
    /\ \/ genArgs \in { Some(a) : a \in GenInputs } /\ liveArgs = NULL
       \/ genArgs = NULL /\ liveArgs \in { Some(a) : a \in LiveInputs }
                         /\ now.month = 0
       \/ \E p \in BothInputs : genArgs = Some(p[1]) /\ liveArgs = Some(p[2])
                                   /\ now.month = 0

GenCall ==
    /\ genArgs # NULL
    /\ Len(genCalls) < MaxCalls
    /\ genCalls' = Append(genCalls,
          [ at |-> now,
            out |-> generateDemoData(genArgs[1].hotel, genArgs[1].airport,
                                     genArgs[1].duration, genArgs[1].board) ])
    /\ UNCHANGED << dashVars, now, ticks, genArgs, liveArgs, liveOut >>

LiveCall ==
    /\ liveArgs # NULL
    /\ liveOut = NULL
    /\ liveOut' = Some(buildLiveMonths(liveArgs[1].h, liveArgs[1].ap, liveArgs[1].d))
    /\ UNCHANGED << dashVars, now, ticks, genArgs, genCalls, liveArgs >>

FnTick ==
    /\ ClockTick
    /\ UNCHANGED << dashVars, genArgs, genCalls, liveArgs, liveOut >>

NextFn == GenCall \/ LiveCall \/ FnTick

SpecFn == InitFn /\ [][NextFn]_vars

-----------------------------------------------------------------------------
(* The Dashboard component (lines 103-188 and the handlers of 213-301).    *)
(* One action is one event: the handler's state updates, the render that   *)
(* follows, and the effects that render runs.                              *)

\* the pricing_data.json documents the fetch may deliver
GridHotel ==
    [ name |-> "Oasis Beach House",
      months |-> Some(<< Priced(<< "Jun", "2026" >>, "Suite", 1800),
                         Priced(<< "Jul", "2026" >>, "Junior Suite", 18) >>),
      room_types |-> Some(<< "Junior Suite", "Suite" >>) ]

ZeroHotel ==
    [ name |-> "Oasis Palmanova Mallorca",
      months |-> Some(<< Priced(<< "Jun", "2026" >>, "Suite", 0) >>),
      room_types |-> NULL ]

BadHotel ==
    [ name |-> "Oasis Katmandu Park",
      months |-> Some(<< ScrapedMonth(<< "Jun", "2026" >>, << >>, NULL) >>),
      room_types |-> Some(<< "Suite" >>) ]

Document == [ hotels |-> Some(<< GridHotel, ZeroHotel, BadHotel >>) ]

\* The ways the fetch may settle (lines 121-127): "hotels", a document with
\* a non-empty hotels list; "empty", a document whose hotels list is missing
\* or empty; "failed", a rejected fetch, a status that is not OK, or a body
\* that is not JSON.

\* the values the user may enter
QueryTexts == { "", "oas" }
AptChoices == { "MAN", "LBA" }
DurChoices == { 7, 10 }
BoardChoices == { "Half Board", "All Inclusive" }

\* liveHotels (lines 131-134)
liveHotels(ld) ==
    IF ld = NULL \/ ld[1].hotels = NULL THEN << >>
    ELSE [ i \in DOMAIN ld[1].hotels[1] |->
             [ name |-> ld[1].hotels[1][i].name,
               _months |-> ld[1].hotels[1][i].months,
               _roomTypes |-> ld[1].hotels[1][i].room_types,
               obj |-> "live" ] ]

\* h.name.toLowerCase().includes(q)
NameMatches(h, q) == Includes(ToLower(Chars(h.name)), ToLower(Chars(q)))

\* the suggestions effect (lines 136-142) for query q, mode m, live data ld
Suggestions(q, m, ld) ==
    IF Len(Chars(q)) < 2 THEN << >>
    ELSE LET Match(h) == NameMatches(h, q)
             lf == SelectSeq(liveHotels(ld), Match)
         IN  IF m = "live" /\ Len(liveHotels(ld)) > 0
               THEN IF Len(lf) > 0 THEN lf ELSE SelectSeq(SAMPLE_HOTELS, Match)
               ELSE SelectSeq(SAMPLE_HOTELS, Match)

\* the callback load hands to setTimeout (line 178): its arguments and the
\* mode and selRoom of the render that made load
Callback(h, ap, d, b, m, sr) ==
    [ h |-> h, ap |-> ap, d |-> d, b |-> b, mode |-> m, selRoom |-> sr ]

\* The effects of the render that follows an event.  suggH and timersH are
\* sugg and timers as the handler left them; hotelChanged tells whether
\* setHotel stored another object.  The suggestions effect runs when query,
\* mode or liveData changed (line 142); the load effect runs when apt, dur,
\* board, hotel or load changed, load changing with mode and selRoom
\* (lines 185, 188).  load sets anim to false (line 178).
Effects(suggH, timersH, animH, hotelChanged) ==
    /\ sugg' = IF << query', mode', liveData' >> # << query, mode, liveData >>
                 THEN Suggestions(query', mode', liveData')
                 ELSE suggH
    /\ IF /\ hotel' # NULL
          /\ \/ hotelChanged
             \/ << apt', dur', board', mode', selRoom' >>
                  # << apt, dur, board, mode, selRoom >>
         THEN /\ timers' = Append(timersH,
                     Callback(hotel'[1], apt', dur', board', mode', selRoom'))
              /\ anim' = FALSE
         ELSE /\ timers' = timersH
              /\ anim' = animH

\* an event of the user, and a step of the environment
UserEvent == events < MaxEvents /\ events' = events + 1
EnvStep == UNCHANGED events

\* .then(d=>...) with a non-empty hotels list (line 124)
FetchData ==
    /\ EnvStep
    /\ fetchSt = "pending"
    /\ fetchSt' = "hotels"
    /\ liveData' = Some(Document)
    /\ liveStatus' = "ok"
    /\ mode' = "live"
    /\ UNCHANGED << query, hotel, apt, dur, board, selRoom, data, rTypes, uncaught >>
    /\ Effects(sugg, timers, anim, FALSE)

\* .then(d=>...) with a missing or empty hotels list (line 125)
FetchEmpty ==
    /\ EnvStep
    /\ fetchSt = "pending"
    /\ fetchSt' = "empty"
    /\ liveStatus' = "none"
    /\ UNCHANGED << mode, liveData, query, hotel, apt, dur, board, selRoom,
                    data, rTypes, uncaught >>
    /\ Effects(sugg, timers, anim, FALSE)

\* the rejection is not caught: liveStatus is left as it was
FetchCatchDropped ==
    /\ EnvStep
    /\ fetchSt = "pending"
    /\ fetchSt' = "failed"
    /\ UNCHANGED << liveStatus, mode, liveData, query, hotel, apt, dur, board,
                    selRoom, data, rTypes, uncaught >>
    /\ Effects(sugg, timers, anim, FALSE)

\* .catch(()=>setLiveStatus("none")) (line 127): the fetch rejected, the
\* status was not OK (line 122), or r.json() rejected
FetchCatch ==
    /\ EnvStep
    /\ fetchSt = "pending"
    /\ fetchSt' = "failed"
    /\ liveStatus' = "none"
    /\ UNCHANGED << mode, liveData, query, hotel, apt, dur, board, selRoom,
                    data, rTypes, uncaught >>
    /\ Effects(sugg, timers, anim, FALSE)

\* the demo/live buttons (line 213)
SetMode ==
    \E m \in { "demo", "live" } :
        /\ UserEvent
        /\ m # mode
        /\ mode' = m
        /\ UNCHANGED << liveData, liveStatus, fetchSt, query, hotel, apt, dur,
                        board, selRoom, data, rTypes, uncaught >>
        /\ Effects(sugg, timers, anim, FALSE)

\* onChange of the hotel input (line 227)
QueryEdit ==
    \E q \in QueryTexts :
        /\ UserEvent
        /\ q # query
        /\ query' = q
        /\ hotel' = NULL
        /\ data' = NULL
        /\ UNCHANGED << mode, liveData, liveStatus, fetchSt, apt, dur, board,
                        selRoom, rTypes, uncaught >>
        /\ Effects(sugg, timers, anim, hotel # NULL)

\* pick (line 187), on a click on a suggestion (line 229): load is the one of
\* the current render
pick ==
    \E i \in DOMAIN sugg :
        LET h == sugg[i]
        IN  /\ UserEvent
            /\ hotel' = Some(h)
            /\ query' = h.name
            /\ UNCHANGED << mode, liveData, liveStatus, fetchSt, apt, dur, board,
                            selRoom, data, rTypes, uncaught >>
            /\ Effects(<< >>,
                       Append(timers, Callback(h, apt, dur, board, mode, selRoom)),
                       FALSE,
                       hotel = NULL \/ h.obj = "live" \/ hotel[1] # h)

\* onChange of the airport, nights and board selects (lines 234-236)
SetApt ==
    \E a \in AptChoices :
        /\ UserEvent
        /\ a # apt
        /\ apt' = a
        /\ UNCHANGED << mode, liveData, liveStatus, fetchSt, query, hotel, dur,
                        board, selRoom, data, rTypes, uncaught >>
        /\ Effects(sugg, timers, anim, FALSE)

SetDur ==
    \E d \in DurChoices :
        /\ UserEvent
        /\ d # dur
        /\ dur' = d
        /\ UNCHANGED << mode, liveData, liveStatus, fetchSt, query, hotel, apt,
                        board, selRoom, data, rTypes, uncaught >>
        /\ Effects(sugg, timers, anim, FALSE)

SetBoard ==
    \E b \in BoardChoices :
        /\ UserEvent
        /\ b # board
        /\ board' = b
        /\ UNCHANGED << mode, liveData, liveStatus, fetchSt, query, hotel, apt,
                        dur, selRoom, data, rTypes, uncaught >>
        /\ Effects(sugg, timers, anim, FALSE)

\* a click on a room tab or a row of the grid (lines 272, 301), which are
\* rendered when data and hotel are set (line 248)
SetSelRoom ==
    /\ UserEvent
    /\ data # NULL
    /\ hotel # NULL
    /\ \E rt \in Range(rTypes) :
        /\ rt # selRoom
        /\ selRoom' = rt
        /\ UNCHANGED << mode, liveData, liveStatus, fetchSt, query, hotel, apt,
                        dur, board, data, rTypes, uncaught >>
        /\ Effects(sugg, timers, anim, FALSE)

\* the callback's fallback (lines 183, 184)
LoadDemo(c) ==
    /\ data' = Some(generateDemoData(c.h.name, c.ap, c.d, c.b))
    /\ rTypes' = ROOM_TYPES
    /\ UNCHANGED << selRoom, uncaught >>

\* the callback's live branch with a result (lines 181-182)
LoadLive(c, result) ==
    /\ data' = Some(result.months)
    /\ rTypes' = result.roomTypes
    /\ selRoom' = IF /\ \A k \in DOMAIN result.roomTypes : result.roomTypes[k] # c.selRoom
                     /\ Len(result.roomTypes) > 0
                    THEN result.roomTypes[1]
                    ELSE selRoom
    /\ UNCHANGED uncaught

\* the callback of load fires, 100 ms after load was called (lines 178-185);
\* the callbacks fire in the order of the calls
TimerFire ==
    /\ EnvStep
    /\ timers # << >>
    /\ LET c == Head(timers)
           result == buildLiveMonths(c.h, c.ap, c.d)
       IN  /\ IF c.mode = "live" /\ c.h._months # NULL
                THEN IF result.kind = "throw"
                       THEN /\ uncaught' = TRUE
                            /\ UNCHANGED << data, rTypes, selRoom >>
                       ELSE IF result.kind = "grid"
                              THEN LoadLive(c, result)
                              ELSE LoadDemo(c)
                ELSE LoadDemo(c)
           /\ UNCHANGED << mode, liveData, liveStatus, fetchSt, query, hotel,
                           apt, dur, board >>
           /\ Effects(sugg, Tail(timers),
                      IF c.mode = "live" /\ c.h._months # NULL /\ result.kind = "throw"
                        THEN anim ELSE TRUE,
                      FALSE)

Init ==
    /\ InitDashboard
    /\ now = [ month |-> 10, year |-> FallbackYear ]
    /\ ticks = 0
    /\ genArgs = NULL
    /\ genCalls = << >>
    /\ liveArgs = NULL
    /\ liveOut = NULL

\* the harness of the pure functions and the clock stay as they are
Idle == UNCHANGED << now, ticks, genArgs, genCalls, liveArgs, liveOut >>

Next ==
    \/ FetchData /\ Idle
    \/ FetchEmpty /\ Idle
    \/ FetchCatch /\ Idle
    \/ SetMode /\ Idle
    \/ QueryEdit /\ Idle
    \/ pick /\ Idle
    \/ SetApt /\ Idle
    \/ SetDur /\ Idle
    \/ SetBoard /\ Idle
    \/ SetSelRoom /\ Idle
    \/ TimerFire /\ Idle

Spec == Init /\ [][Next]_vars

-----------------------------------------------------------------------------
(* Claims about generateDemoData and buildLiveMonths, under SpecFn *)

\* the months of the grids the generator has returned, with their call
GenMonths ==
    { << c, i >> : c \in Range(genCalls), i \in 1 .. 12 }

\* C1: every result of generateDemoData has exactly 12 entries; entry i
\* (0..11) is named MONTHS[(m0+i) mod 12], has year y0 + (1 if m0+i >= 12),
\* where m0, y0 are the clock's month and year at the call, and carries a
\* room record for each of the five default room types.
C1_TwelveMonths ==
    \A c \in Range(genCalls) :
        /\ Len(c.out) = 12
        /\ \A i \in 0 .. 11 :
              /\ c.out[i + 1].month = MONTHS[((c.at.month + i) % 12) + 1]
              /\ c.out[i + 1].year =
                    c.at.year + (IF c.at.month + i >= 12 THEN 1 ELSE 0)
              /\ DOMAIN c.out[i + 1].rooms = Range(ROOM_TYPES)

\* a result whose months wrap into the next year and which keeps a month
\* where most rooms are unavailable
C1_Witness ==
    \E c \in Range(genCalls) :
        /\ c.at.month = 11
        /\ c.out[2].year = c.at.year + 1
        /\ \E i \in 1 .. 12 : c.out[i].availability[1] <= 2

\* C2 (as claimed): any two calls of generateDemoData with the same four
\* arguments, at any two points of a run, return identical sequences.
C2_FourArgumentsOnly ==
    \A i, j \in DOMAIN genCalls : genCalls[i].out = genCalls[j].out

\* C2 (amended): any two calls with the same four arguments made while the
\* clock shows the same month and year return identical sequences.
C2_SameClockSameOutput ==
    \A i, j \in DOMAIN genCalls :
        genCalls[i].at = genCalls[j].at => genCalls[i].out = genCalls[j].out

\* two calls were made under the same clock, after the clock had moved
C2_Witness ==
    /\ Len(genCalls) >= 2
    /\ genCalls[1].at = genCalls[2].at
    /\ ticks > 0

\* the record, room types and nights of the call of buildLiveMonths
LiveH == liveArgs[1].h
LiveRt == IF LiveH._roomTypes = NULL THEN ROOM_TYPES ELSE LiveH._roomTypes[1]

\* a scraped month in which an active room type has a raw price > 0
HasRawPrice(m) == \E r \in Range(LiveRt) : LiveHasPrice(m, r)

\* C3: for a record with a non-empty month list (each month with a rooms
\* mapping) and a non-empty active room-type list, buildLiveMonths keeps a
\* month iff some active room type has a raw price > 0 in it; the kept
\* months are in input order; the result is null exactly when none is kept.
C3_KeepsPricedMonths ==
    ( /\ liveOut # NULL
      /\ LiveH._months # NULL
      /\ LiveH._months[1] # << >>
      /\ LiveRt # << >>
      /\ ~ LiveRaises(LiveH._months[1]) )
    => LET kept == SelectSeq(LiveH._months[1], HasRawPrice)
       IN  /\ (liveOut[1].kind = "null") <=> (kept = << >>)
           /\ kept # << >> =>
                 /\ liveOut[1].kind = "grid"
                 /\ liveOut[1].months =
                      [ i \in DOMAIN kept |-> LiveMonth(kept[i], LiveRt, liveArgs[1].d) ]

\* C4: buildLiveMonths never raises an error: it returns null or a grid for
\* every record, and null when the record has no months or its room-type
\* list is empty.
C4_NeverRaises ==
    liveOut # NULL =>
        /\ liveOut[1].kind \in { "null", "grid" }
        /\ ( LiveH._months = NULL \/ LiveH._months = Some(<< >>) \/ LiveRt = << >> )
             => liveOut[1].kind = "null"

\* C7: in every room entry of every month returned by generateDemoData and
\* by buildLiveMonths, perNight = round(price / duration) for the price
\* stored in the same entry.
C7_PerNight ==
    /\ \A x \in GenMonths : \A rt \in Range(ROOM_TYPES) :
          LET e == x[1].out[x[2]].rooms[rt]
          IN  e.perNight = RoundDiv(e.price, genArgs[1].duration)
    /\ liveOut # NULL =>
          \A i \in DOMAIN liveOut[1].months : \A r \in DOMAIN liveOut[1].months[i].rooms :
              LET e == liveOut[1].months[i].rooms[r]
              IN  e.perNight = RoundDiv(e.price, liveArgs[1].d)

\* cheapest <= price <= mostExpensive for every available room of month mo
WithinBounds(mo) ==
    \A r \in DOMAIN mo.rooms :
        mo.rooms[r].available =>
            mo.cheapest <= mo.rooms[r].price /\ mo.rooms[r].price <= mo.mostExpensive

\* C8: in every month of every grid returned by generateDemoData or
\* buildLiveMonths, cheapest <= price <= mostExpensive for the stored price
\* of every available room.
C8_Bounds ==
    /\ \A x \in GenMonths : WithinBounds(x[1].out[x[2]])
    /\ liveOut # NULL =>
          \A i \in DOMAIN liveOut[1].months : WithinBounds(liveOut[1].months[i])

\* both functions have returned a grid with a month in which two rooms are
\* available at different prices
C8_Witness ==
    /\ \E x \in GenMonths :
          /\ x[1].out[x[2]].availability[1] >= 2
          /\ x[1].out[x[2]].cheapest < x[1].out[x[2]].mostExpensive
    /\ liveOut # NULL
    /\ liveOut[1].kind = "grid"
    /\ \E i \in DOMAIN liveOut[1].months :
          /\ liveOut[1].months[i].availability[1] >= 2
          /\ liveOut[1].months[i].cheapest < liveOut[1].months[i].mostExpensive

\* the least price among the available rooms of month mo, 0 when there is none
MinAvailable(mo) ==
    LET av == { mo.rooms[r].price : r \in { x \in DOMAIN mo.rooms : mo.rooms[x].available } }
    IN  IF av = { } THEN 0 ELSE CHOOSE p \in av : \A q \in av : p <= q

\* C9: in every month returned by generateDemoData, cheapest is the least
\* price among the rooms whose available flag is true, and 0 when no room
\* of the month is available.
C9_CheapestAvailable ==
    \A x \in GenMonths : x[1].out[x[2]].cheapest = MinAvailable(x[1].out[x[2]])

\* C10: buildLiveMonths returns null or a sequence of at least 1 and at
\* most 12 months, whatever the number of scraped months of the record.
C10_AtMostTwelve ==
    ( liveOut # NULL /\ liveOut[1].kind # "throw" ) =>
        \/ liveOut[1].kind = "null" /\ liveOut[1].months = << >>
        \/ /\ liveOut[1].kind = "grid"
           /\ Len(liveOut[1].months) >= 1
           /\ Len(liveOut[1].months) <= 12

-----------------------------------------------------------------------------
(* Claims about the Dashboard component, under Spec *)

\* C5: the startup fetch settles once, and however it settles liveStatus
\* leaves "loading" for good: a document with hotels gives liveStatus "ok",
\* liveData set and mode "live"; an empty or missing hotels list and any
\* failure give liveStatus "none", liveData still null and mode unchanged.
C5_FetchSettles ==
    /\ [](fetchSt = "pending" <=> liveStatus = "loading")
    /\ [](fetchSt = "hotels" =>
             /\ liveStatus = "ok"
             /\ liveData # NULL
             /\ Len(liveData[1].hotels[1]) > 0)
    /\ [](fetchSt \in { "empty", "failed" } =>
             liveStatus = "none" /\ liveData = NULL)
    /\ [][ /\ (fetchSt = "pending" /\ fetchSt' = "hotels") => mode' = "live"
           /\ (fetchSt = "pending" /\ fetchSt' \in { "empty", "failed" })
                 => mode' = mode
           /\ fetchSt # "pending" => fetchSt' = fetchSt
           /\ liveStatus # "loading" => liveStatus' # "loading" ]_vars

\* the fetch failed after the user had chosen the live mode and a hotel
C5_Witness ==
    /\ fetchSt = "failed"
    /\ liveStatus = "none"
    /\ mode = "live"
    /\ hotel # NULL

\* the grid the load of the current selection is to display
SelectionGrid ==
    LET result == buildLiveMonths(hotel[1], apt, dur)
    IN  IF mode = "live" /\ hotel[1]._months # NULL /\ result.kind = "grid"
          THEN result.months
          ELSE generateDemoData(hotel[1].name, apt, dur, board)

\* C6: once a hotel is selected and the scheduled loads have run, data is a
\* non-empty grid: the normalizer's result in live mode when it is not null,
\* and otherwise the 12-entry synthetic grid, with the default room types.
C6_GridAfterPick ==
    ( hotel # NULL /\ timers = << >> ) =>
        /\ data # NULL
        /\ data[1] # << >>
        /\ data[1] = SelectionGrid
        /\ data[1] = generateDemoData(hotel[1].name, apt, dur, board)
              => Len(data[1]) = 12 /\ rTypes = ROOM_TYPES

\* a step in which the callback of the oldest pending load runs: the only
\* step that is neither an event of the user nor the settling of the fetch
LoadStep ==
    /\ timers # << >>
    /\ events' = events
    /\ fetchSt' = fetchSt
    /\ vars' # vars

\* the room-type list a live record declares (line 148), the default list
\* when it declares none
DeclaredRoomTypes(h) ==
    IF h._roomTypes # NULL THEN h._roomTypes[1] ELSE ROOM_TYPES

\* the callback that runs next is one of live mode whose normalizer result
\* is not null
LiveLoadSucceeds ==
    /\ Head(timers).mode = "live"
    /\ Head(timers).h._months # NULL
    /\ buildLiveMonths(Head(timers).h, Head(timers).ap, Head(timers).d).kind = "grid"

\* C11: when the callback of a load in live mode gets a non-null normalizer
\* result, the active room-type list becomes the list the live record
\* declares, and the selection of the moment before the callback ran is
\* reset to the first of the list if it is not in the list and left as it
\* is if it is in the list.
C11_LiveLoadSelection ==
    [][ ( LoadStep /\ LiveLoadSucceeds ) =>
          LET list == DeclaredRoomTypes(Head(timers).h)
          IN  /\ rTypes' = list
              /\ selRoom' = IF selRoom \in Range(list) THEN selRoom ELSE list[1]
      ]_vars

\* C12: once every pending load callback has run, the selected room type of
\* a displayed grid is a member of the active room-type list and a key of
\* the rooms mapping of every month of the grid, also when the grid is the
\* synthetic one loaded after a live record with its own list was shown.
C12_SelRoomInGrid ==
    ( timers = << >> /\ hotel # NULL /\ data # NULL ) =>
        /\ selRoom \in Range(rTypes)
        /\ \A i \in DOMAIN data[1] : selRoom \in DOMAIN data[1][i].rooms

\* C13: in every reachable state data is set only if a hotel is selected:
\* after a query edit has cleared hotel and data, the callback of a load
\* scheduled earlier does not write a grid into data while hotel is null.
C13_DataOnlyWithHotel == data # NULL => hotel # NULL

=============================================================================
